---- MODULE Spec2Model ----
(***************************************************************************)
(* Model of the AWS instance collector (src/main.py) and of the raw-data   *)
(* to object conversion (src/modules.py).                                  *)
(*                                                                         *)
(* Python strings that the code parses (the IP address values) are         *)
(* sequences of one-character strings; dictionaries are functions from a   *)
(* set of keys, so an absent key is a key outside DOMAIN; an exception is  *)
(* a value [type, arg, text] returned in place of the result.              *)
(***************************************************************************)
EXTENDS Integers, Sequences, FiniteSets, TLC

(***************************************************************************)
(* Bounds of the model.                                                    *)
(***************************************************************************)
\* the longest response sequence (pages) a region serves
MaxPages == 3
\* the most network interfaces combined pairwise in one raw instance
MaxInterfaces == 2

(***************************************************************************)
(* ipaddress.ip_address, as used by modules.py (from ipaddress import      *)
(* ip_address): the string is parsed as IPv4, then as IPv6, and a          *)
(* ValueError is raised when both fail.  An address object is              *)
(* [version, words, scope]: words are the digits of the integer _ip in     *)
(* base 256 (IPv4) or base 65536 (IPv6), scope the IPv6 scope id.          *)
(***************************************************************************)
None == [version |-> 0, words |-> <<>>, scope |-> <<>>]

DecDigits == <<"0", "1", "2", "3", "4", "5", "6", "7", "8", "9">>
HexLower == DecDigits \o <<"a", "b", "c", "d", "e", "f">>
HexUpper == DecDigits \o <<"A", "B", "C", "D", "E", "F">>

IsDigit(c) == \E i \in 1..10 : DecDigits[i] = c
DigitVal(c) == (CHOOSE i \in 1..10 : DecDigits[i] = c) - 1
IsHex(c) == \E i \in 1..16 : HexLower[i] = c \/ HexUpper[i] = c
HexVal(c) == (CHOOSE i \in 1..16 : HexLower[i] = c \/ HexUpper[i] = c) - 1

\* x in s
Contains(s, c) == \E i \in 1..Len(s) : s[i] = c

\* s.split(sep)
RECURSIVE SplitAcc(_, _, _, _)
SplitAcc(s, sep, cur, acc) ==
    IF s = <<>> THEN Append(acc, cur)
    ELSE IF Head(s) = sep THEN SplitAcc(Tail(s), sep, <<>>, Append(acc, cur))
    ELSE SplitAcc(Tail(s), sep, Append(cur, Head(s)), acc)
Split(s, sep) == SplitAcc(s, sep, <<>>, <<>>)

\* sep.join(parts)
RECURSIVE Join(_, _)
Join(parts, sep) ==
    IF parts = <<>> THEN <<>>
    ELSE IF Len(parts) = 1 THEN parts[1]
    ELSE parts[1] \o <<sep>> \o Join(Tail(parts), sep)

\* int(s, 10) and int(s, 16) of a string of legal digits
RECURSIVE DecInt(_)
DecInt(s) == IF s = <<>> THEN 0 ELSE DecInt(SubSeq(s, 1, Len(s) - 1)) * 10 + DigitVal(s[Len(s)])
RECURSIVE HexInt(_)
HexInt(s) == IF s = <<>> THEN 0 ELSE HexInt(SubSeq(s, 1, Len(s) - 1)) * 16 + HexVal(s[Len(s)])

\* '%d' % n and '%x' % n
RECURSIVE DecStr(_)
DecStr(n) == IF n < 10 THEN <<DecDigits[n + 1]>> ELSE Append(DecStr(n \div 10), DecDigits[(n % 10) + 1])
RECURSIVE HexStr(_)
HexStr(n) == IF n < 16 THEN <<HexLower[n + 1]>> ELSE Append(HexStr(n \div 16), HexLower[(n % 16) + 1])

\* IPv4Address._parse_octet: the octet, or -1 for the ValueError
OctetInRange(n) == IF n > 255 THEN -1 ELSE n
ParseOctet(o) ==
    IF o = <<>> THEN -1
    ELSE IF ~ \A i \in 1..Len(o) : IsDigit(o[i]) THEN -1
    ELSE IF Len(o) > 3 THEN -1
    ELSE IF o # <<"0">> /\ o[1] = "0" THEN -1
    ELSE OctetInRange(DecInt(o))

NotAnAddress == [ok |-> FALSE, addr |-> None]

\* IPv4Address(str): [ok, addr]; ok = FALSE is the AddressValueError
IPv4FromOctets(vals) ==
    IF \E i \in 1..4 : vals[i] = -1 THEN NotAnAddress
    ELSE [ok |-> TRUE, addr |-> [version |-> 4, words |-> vals, scope |-> <<>>]]
IPv4FromParts(octets) ==
    IF Len(octets) # 4 THEN NotAnAddress
    ELSE IPv4FromOctets([i \in 1..4 |-> ParseOctet(octets[i])])
IPv4Address(s) ==
    IF Contains(s, "/") \/ s = <<>> THEN NotAnAddress ELSE IPv4FromParts(Split(s, "."))

\* IPv6Address._parse_hextet: the hextet, or -1 for the ValueError
ParseHextet(h) ==
    IF ~ \A i \in 1..Len(h) : IsHex(h[i]) THEN -1
    ELSE IF Len(h) > 4 \/ h = <<>> THEN -1
    ELSE HexInt(h)

\* the index of the one '::' of parts (0: none, -1: more than one)
SkipIndex(parts) ==
    LET empties == {i \in 2..(Len(parts) - 1) : parts[i] = <<>>}
    IN  IF empties = {} THEN 0
        ELSE IF Cardinality(empties) > 1 THEN -1
        ELSE CHOOSE i \in empties : TRUE

\* IPv6Address._ip_int_from_string: the 8 hextets, or <<>> for the
\* AddressValueError.  hi and lo are the numbers of hextets before and after
\* the '::'.
IPv6Checked(words) == IF \E i \in 1..8 : words[i] = -1 THEN <<>> ELSE words
IPv6Hextets(parts, hi, lo) ==
    IPv6Checked([i \in 1..8 |->
                    IF i <= hi THEN ParseHextet(parts[i])
                    ELSE IF i <= 8 - lo THEN 0
                    ELSE ParseHextet(parts[Len(parts) - (8 - i)])])
IPv6Compressed(parts, hi, lo) ==
    IF parts[1] = <<>> /\ hi # 0 THEN <<>>
    ELSE IF parts[Len(parts)] = <<>> /\ lo # 0 THEN <<>>
    ELSE IF 8 - (hi + lo) < 1 THEN <<>>
    ELSE IPv6Hextets(parts, hi, lo)
IPv6Skip(parts, skip) ==
    IF skip = -1 THEN <<>>
    ELSE IF skip > 0
    THEN IPv6Compressed(parts,
                        IF parts[1] = <<>> THEN skip - 2 ELSE skip - 1,
                        IF parts[Len(parts)] = <<>> THEN Len(parts) - skip - 1 ELSE Len(parts) - skip)
    ELSE IF Len(parts) # 8 \/ parts[1] = <<>> \/ parts[Len(parts)] = <<>> THEN <<>>
    ELSE IPv6Hextets(parts, 8, 0)
IPv6Shape(parts) == IF Len(parts) > 9 THEN <<>> ELSE IPv6Skip(parts, SkipIndex(parts))
\* an IPv4-style suffix is converted to two hextets
IPv6WithSuffix(parts, v4) ==
    IF ~v4.ok THEN <<>>
    ELSE IPv6Shape(SubSeq(parts, 1, Len(parts) - 1)
                   \o << HexStr(v4.addr.words[1] * 256 + v4.addr.words[2]),
                         HexStr(v4.addr.words[3] * 256 + v4.addr.words[4]) >>)
IPv6FromParts(parts) ==
    IF Len(parts) < 3 THEN <<>>
    ELSE IF Contains(parts[Len(parts)], ".") THEN IPv6WithSuffix(parts, IPv4Address(parts[Len(parts)]))
    ELSE IPv6Shape(parts)
IPv6Words(s) == IF s = <<>> THEN <<>> ELSE IPv6FromParts(Split(s, ":"))

\* IPv6Address(str): [ok, addr]; ok = FALSE is the AddressValueError
IPv6Make(words, scope) ==
    IF words = <<>> THEN NotAnAddress
    ELSE [ok |-> TRUE, addr |-> [version |-> 6, words |-> words, scope |-> scope]]
\* _split_scope_id: s.partition('%'), cut the place of the first '%'
IPv6Scoped(s, cut) ==
    IF cut = Len(s) \/ Contains(SubSeq(s, cut + 1, Len(s)), "%") THEN NotAnAddress
    ELSE IPv6Make(IPv6Words(SubSeq(s, 1, cut - 1)), SubSeq(s, cut + 1, Len(s)))
IPv6Address(s) ==
    IF Contains(s, "/") THEN NotAnAddress
    ELSE IF Contains(s, "%")
    THEN IPv6Scoped(s, CHOOSE i \in 1..Len(s) : s[i] = "%" /\ \A j \in 1..(i - 1) : s[j] # "%")
    ELSE IPv6Make(IPv6Words(s), <<>>)

\* ip_address(str): [ok, addr]; ok = FALSE is the ValueError
FirstValid(v4, address) == IF v4.ok THEN v4 ELSE IPv6Address(address)
ip_address(address) == FirstValid(IPv4Address(address), address)

\* _BaseV6._compress_hextets: the longest run of '0' hextets (the first of the
\* longest) is replaced by an empty string, when longer than one
RunLen(w, i) == Cardinality({j \in i..8 : \A k \in i..j : w[k] = 0})
BestRun(w) ==
    CHOOSE i \in 1..8 :
        /\ \A j \in 1..8 : RunLen(w, j) <= RunLen(w, i)
        /\ \A j \in 1..(i - 1) : RunLen(w, j) < RunLen(w, i)
Compress(hextets, start, len) ==
    IF len <= 1 THEN hextets
    ELSE (IF start = 1 THEN << <<>> >> ELSE SubSeq(hextets, 1, start - 1))
         \o << <<>> >>
         \o (IF start + len = 9 THEN << <<>> >> ELSE SubSeq(hextets, start + len, 8))
CompressRun(w, start) == Compress([i \in 1..8 |-> HexStr(w[i])], start, RunLen(w, start))

\* str(address)
WithScope(s, scope) == IF scope # <<>> THEN s \o <<"%">> \o scope ELSE s
str(a) ==
    IF a.version = 4 THEN Join([i \in 1..4 |-> DecStr(a.words[i])], ".")
    ELSE WithScope(Join(CompressRun(a.words, BestRun(a.words)), ":"), a.scope)

(***************************************************************************)
(* Exceptions and diagnostics.  An exception is [type, arg, text]: a       *)
(* KeyError carries the missing key in arg, a ValueError the rejected      *)
(* string in text, a failure of the remote side the region in arg.         *)
(***************************************************************************)
NoExc == [type |-> "none", arg |-> "", text |-> <<>>]
KeyError(key) == [type |-> "KeyError", arg |-> key, text |-> <<>>]
ValueError(s) == [type |-> "ValueError", arg |-> "", text |-> s]

\* one logging call: logging.<level>(f"<msg> {id}")
LogLine(level, msg, id) == [level |-> level, msg |-> msg, id |-> id]

\* the first key of keys that d lacks ("" when d has them all): the key the
\* first failing d[key] names
RECURSIVE FirstMissing(_, _)
FirstMissing(d, keys) ==
    IF keys = <<>> THEN ""
    ELSE IF Head(keys) \notin DOMAIN d THEN Head(keys)
    ELSE FirstMissing(d, Tail(keys))

\* Python truthiness of a string
Truthy(s) == s # <<>>

(***************************************************************************)
(* modules.from_raw_data_to_network_interface.  The result is              *)
(* [exc, value, log]: the exception that escapes (NoExc when the function  *)
(* returns), the NetworkInterface returned, and the diagnostics emitted.   *)
(***************************************************************************)
AssociationKeys == <<"IpOwnerId", "PublicDnsName">>
InterfaceKeys == <<"MacAddress", "NetworkInterfaceId", "OwnerId", "PrivateDnsName", "SubnetId", "Status">>

InterfaceRaises(e) == [exc |-> e, value |-> None, log |-> <<>>]

\* try: field = ip_address(s) / except ValueError: log.  [addr, failed]
Tried(parsed) == [addr |-> parsed.addr, failed |-> ~parsed.ok]
\* lines 105-110 and 119-124: a truthy string is parsed inside try/except
Guarded(s) == IF Truthy(s) THEN Tried(ip_address(s)) ELSE [addr |-> None, failed |-> FALSE]
\* lines 112-117: the parsed public_ip (an address object, always truthy) is
\* parsed again, from its string form, inside try/except
Reparsed(public_ip) == Tried(ip_address(str(public_ip)))

LogIf(failed, level, msg, id) == IF failed THEN <<LogLine(level, msg, id)>> ELSE <<>>

\* lines 93-100 and 105-125: the object, its address fields and the diagnostics
FilledInterface(raw_data, ipv6, public, private) ==
    [exc |-> NoExc,
     value |-> [ip_owner_id |-> raw_data["Association"]["IpOwnerId"],
                public_dns_name |-> raw_data["Association"]["PublicDnsName"],
                mac_address |-> raw_data["MacAddress"],
                network_interface_id |-> raw_data["NetworkInterfaceId"],
                owner_id |-> raw_data["OwnerId"],
                private_dns_name |-> raw_data["PrivateDnsName"],
                subnet_id |-> raw_data["SubnetId"],
                status |-> raw_data["Status"],
                public_ip_address |-> public.addr,
                ipv6_address |-> ipv6.addr,
                private_ip_address |-> private.addr],
     log |-> LogIf(ipv6.failed, "error", "ipv6 address is not valid in network interface with the id",
                   raw_data["NetworkInterfaceId"])
             \o LogIf(public.failed, "debug", "public_ip address is not valid in network interface with the id",
                      raw_data["NetworkInterfaceId"])
             \o LogIf(private.failed, "error",
                      "private_ip_address address is not valid in network interface with the id",
                      raw_data["NetworkInterfaceId"])]

\* lines 103-104: public_ip is the result of ip_address(association["PublicIp"]),
\* called outside any try
WithPublicIp(raw_data, public_ip) ==
    IF ~public_ip.ok THEN InterfaceRaises(ValueError(raw_data["Association"]["PublicIp"]))
    ELSE IF "PrivateIpAddress" \notin DOMAIN raw_data THEN InterfaceRaises(KeyError("PrivateIpAddress"))
    ELSE FilledInterface(raw_data, Guarded(raw_data["Ipv6Addresses"]), Reparsed(public_ip.addr),
                         Guarded(raw_data["PrivateIpAddress"]))

\* lines 91-100: the key the first failing lookup names, "" when none fails
MissingInterfaceKey(raw_data) ==
    IF "Association" \notin DOMAIN raw_data THEN "Association"
    ELSE IF FirstMissing(raw_data["Association"], AssociationKeys) # ""
    THEN FirstMissing(raw_data["Association"], AssociationKeys)
    ELSE FirstMissing(raw_data, InterfaceKeys)

WithRequired(raw_data, missing) ==
    IF missing # "" THEN InterfaceRaises(KeyError(missing))
    ELSE IF "Ipv6Addresses" \notin DOMAIN raw_data THEN InterfaceRaises(KeyError("Ipv6Addresses"))
    ELSE IF "PublicIp" \notin DOMAIN raw_data["Association"] THEN InterfaceRaises(KeyError("PublicIp"))
    ELSE WithPublicIp(raw_data, ip_address(raw_data["Association"]["PublicIp"]))

from_raw_data_to_network_interface(raw_data) == WithRequired(raw_data, MissingInterfaceKey(raw_data))

(***************************************************************************)
(* modules.from_raw_data_to_instance: [exc, value, log] as above.  The     *)
(* interfaces are converted first, in order; the first exception escapes,  *)
(* after the diagnostics of the interfaces converted before it.            *)
(***************************************************************************)
InstanceKeys == <<"ImageId", "InstanceId", "State", "LaunchTime", "Tags", "CpuOptions", "InstanceType",
                  "SecurityGroups", "ClientToken", "StateTransitionReason", "RootDeviceName">>

NoInstance == [instance_id |-> ""]

\* lines 38-44: the loop over raw_data["NetworkInterfaces"]; r is what
\* from_raw_data_to_network_interface did with the first of interfaces
RECURSIVE ParseInterfaces(_, _, _)
RECURSIVE ParsedInterface(_, _, _, _)
\* mutant: an interface with an invalid address is left out
ParsedInterfaceValidOnly(interfaces, parsed_interfaces, log, r) ==
    IF r.exc # NoExc THEN [exc |-> r.exc, value |-> <<>>, log |-> log \o r.log]
    ELSE ParseInterfaces(Tail(interfaces),
                         IF r.log = <<>> THEN Append(parsed_interfaces, r.value) ELSE parsed_interfaces,
                         log \o r.log)
ParsedInterface(interfaces, parsed_interfaces, log, r) ==
    IF r.exc # NoExc THEN [exc |-> r.exc, value |-> <<>>, log |-> log \o r.log]
    ELSE ParseInterfaces(Tail(interfaces), Append(parsed_interfaces, r.value), log \o r.log)
ParseInterfaces(interfaces, parsed_interfaces, log) ==
    IF interfaces = <<>> THEN [exc |-> NoExc, value |-> parsed_interfaces, log |-> log]
    ELSE ParsedInterface(interfaces, parsed_interfaces, log,
                         from_raw_data_to_network_interface(Head(interfaces)))

\* lines 56-63: an optional key's value when present, the default ""
Optional(raw_data, key) == IF key \in DOMAIN raw_data THEN raw_data[key] ELSE ""

\* lines 47-65: the object, given the interfaces parsed
FilledInstance(raw_data, parsed_interfaces) ==
    [image_id |-> raw_data["ImageId"],
     instance_id |-> raw_data["InstanceId"],
     network_interfaces |-> parsed_interfaces,
     state |-> raw_data["State"],
     launch_time |-> raw_data["LaunchTime"],
     tags |-> raw_data["Tags"],
     cpu_details |-> raw_data["CpuOptions"],
     instance_type |-> raw_data["InstanceType"],
     security_groups |-> raw_data["SecurityGroups"],
     client_token |-> raw_data["ClientToken"],
     state_transition_reason |-> raw_data["StateTransitionReason"],
     root_device_name |-> raw_data["RootDeviceName"],
     ram_disk_id |-> Optional(raw_data, "RamdiskId"),
     platform |-> Optional(raw_data, "PlatformDetails"),
     kernel_id |-> Optional(raw_data, "KernelId"),
     Host_id |-> Optional(raw_data, "HostId")]

InstanceRaises(e, log) == [exc |-> e, value |-> NoInstance, log |-> log]
WithInterfaces(raw_data, interfaces, missing) ==
    IF interfaces.exc # NoExc THEN InstanceRaises(interfaces.exc, interfaces.log)
    ELSE IF missing # "" THEN InstanceRaises(KeyError(missing), interfaces.log)
    ELSE [exc |-> NoExc, value |-> FilledInstance(raw_data, interfaces.value), log |-> interfaces.log]

from_raw_data_to_instance(raw_data) ==
    IF "NetworkInterfaces" \notin DOMAIN raw_data THEN InstanceRaises(KeyError("NetworkInterfaces"), <<>>)
    ELSE WithInterfaces(raw_data, ParseInterfaces(raw_data["NetworkInterfaces"], <<>>, <<>>),
                        FirstMissing(raw_data, InstanceKeys))

(***************************************************************************)
(* The raw data the remote side serves.                                    *)
(***************************************************************************)
\* main.py lines 37-40
all_aws_regions ==
    <<"us-east-2", "us-east-1", "us-west-1", "us-west-2", "af-south-1", "ap-east-1", "ap-south-1",
      "ap-northeast-3", "ap-northeast-2", "ap-southeast-1", "ap-southeast-2", "ap-northeast-1",
      "ca-central-1", "eu-central-1", "eu-west-1", "eu-west-2", "eu-south-1", "eu-west-3",
      "eu-north-1", "me-south-1", "sa-east-1">>
\* main.py line 79: the two regions the caller names
RegionA == "us-east-2"
RegionB == "us-west-2"
Regions == {all_aws_regions[i] : i \in 1..Len(all_aws_regions)}

\* d without the key k
Drop(d, k) == [x \in DOMAIN d \ {k} |-> d[x]]
\* d with the key k set to v, unless v is the marker of an absent key
Absent == <<"absent">>
With(d, k, v) == IF v = Absent THEN d ELSE (k :> v) @@ d

\* address strings
V4a == <<"1", "0", ".", "0", ".", "0", ".", "5">>
V4b == <<"1", "9", "8", ".", "5", "1", ".", "1", "0", "0", ".", "5">>
V6a == <<"2", "0", "0", "1", ":", "d", "b", "8", ":", ":", "1">>
Bad == <<"n", "o", "t", "-", "a", "n", "-", "i", "p">>
AddrCore == {Absent, <<>>, V4a, V6a, Bad}
AddrMore ==
    { <<":", ":", "1">>,
      <<"2", "5", "6", ".", "1", ".", "1", ".", "1">>,
      <<"0", "1", ".", "2", ".", "3", ".", "4">>,
      <<"1", "0", ".", "0", ".", "0">>,
      <<":", ":", "f", "f", "f", "f", ":", "1", ".", "2", ".", "3", ".", "4">>,
      <<"f", "e", "8", "0", ":", ":", "1", "%", "e", "t", "h", "0">>,
      <<"1", ":", ":", "2", ":", ":", "3">>,
      <<"2", "0", "0", "1", ":", "D", "B", "8", ":", "0", ":", "0", ":", "1", ":", "0", ":", "0", ":", "1">> }

\* a raw network interface (the keys modules.py lines 91-104 read)
Interface(id, ipv6, public, private) ==
    LET association == With([IpOwnerId |-> "amazon", PublicDnsName |-> "ec2.example"], "PublicIp", public)
        required == [Association |-> association, MacAddress |-> "02:00:00:00:00:01",
                     NetworkInterfaceId |-> id, OwnerId |-> "111122223333",
                     PrivateDnsName |-> "ip-10-0-0-5.internal", SubnetId |-> "subnet-1",
                     Status |-> "in-use"]
    IN  With(With(required, "Ipv6Addresses", ipv6), "PrivateIpAddress", private)
DropAssociationKey(interface, k) ==
    [interface EXCEPT !["Association"] = Drop(interface["Association"], k)]

GoodInterface(id) == Interface(id, <<>>, V4b, V4a)
RawInterfaces ==
    {Interface("eni-1", a, b, c) : a \in AddrCore, b \in AddrCore, c \in AddrCore}
    \cup {Interface("eni-1", a, V4b, V4a) : a \in AddrMore}
    \cup {Interface("eni-1", <<>>, a, V4a) : a \in AddrMore}
    \cup {Interface("eni-1", <<>>, V4b, a) : a \in AddrMore}
    \cup {Drop(GoodInterface("eni-1"), k) : k \in {"Association"} \cup {InterfaceKeys[i] : i \in 1..Len(InterfaceKeys)}}
    \cup {DropAssociationKey(GoodInterface("eni-1"), k) : k \in {AssociationKeys[i] : i \in 1..Len(AssociationKeys)}}

\* the interfaces that are combined into lists of up to MaxInterfaces
InterfaceChoice(c, id) ==
    CASE c = 1 -> GoodInterface(id)
      [] c = 2 -> Interface(id, <<>>, <<>>, V4a)
      [] c = 3 -> Interface(id, Bad, V4b, Bad)
      [] c = 4 -> Drop(GoodInterface(id), "MacAddress")
InterfaceLists ==
    UNION {{[i \in 1..n |-> InterfaceChoice(f[i], "eni-" \o ToString(i))] : f \in [1..n -> 1..4]} : n \in 0..MaxInterfaces}

\* a raw instance (the keys modules.py lines 40-63 read), without the optional keys
Instance(id, interfaces) ==
    [ImageId |-> "ami-1", InstanceId |-> id, NetworkInterfaces |-> interfaces,
     State |-> [Code |-> 16, Name |-> "running"], LaunchTime |-> "2021-01-01T00:00:00",
     Tags |-> <<[Key |-> "Name", Value |-> "web"], [Key |-> "Name", Value |-> "web"]>>,
     CpuOptions |-> [CoreCount |-> 1, ThreadsPerCore |-> 2], InstanceType |-> "t2.micro",
     SecurityGroups |-> <<[GroupName |-> "default", GroupId |-> "sg-1"]>>, ClientToken |-> "",
     StateTransitionReason |-> "", RootDeviceName |-> "/dev/sda1"]
OptionalValues ==
    [RamdiskId |-> "ari-1", PlatformDetails |-> "Linux/UNIX", KernelId |-> "aki-1", HostId |-> "h-1"]
RequiredKeys == {"NetworkInterfaces"} \cup {InstanceKeys[i] : i \in 1..Len(InstanceKeys)}

RawInstances ==
    {Instance("i-1", <<x>>) : x \in RawInterfaces}
    \cup {Instance("i-1", l) : l \in InterfaceLists}
    \cup {Drop(Instance("i-1", <<InterfaceChoice(c, "eni-1")>>), k) : c \in 1..3, k \in RequiredKeys}
    \cup {Drop(Instance("i-1", <<>>), k) : k \in RequiredKeys}
    \cup {[k \in S |-> OptionalValues[k]] @@ Instance("i-1", <<GoodInterface("eni-1")>>) : S \in SUBSET DOMAIN OptionalValues}

\* the well-formed instance at place k of reservation r of page p of a region
InstanceAt(region, p, r, k) ==
    Instance("i-" \o region \o "-" \o ToString(p) \o "-" \o ToString(r) \o "-" \o ToString(k),
             <<GoodInterface("eni-1")>>)

\* A page of a listing: fail is an exception raised by the call, else the
\* reservations of the response.
FailPage == [fail |-> TRUE, Reservations |-> <<>>]
Page(reservations) == [fail |-> FALSE, Reservations |-> reservations]
PageChoice(c, region, p) ==
    CASE c = 0 -> FailPage
      [] c = 1 -> Page(<<[Instances |-> <<InstanceAt(region, p, 1, 1)>>]>>)
      [] c = 2 -> Page(<<[Instances |-> <<InstanceAt(region, p, 1, 1), InstanceAt(region, p, 1, 2)>>],
                         [Instances |-> <<InstanceAt(region, p, 2, 1)>>]>>)
      [] c = 3 -> Page(<<[Instances |-> <<>>],
                         [Instances |-> <<Drop(InstanceAt(region, p, 2, 1), "ImageId")>>]>>)
      [] c = 4 -> Page(<<>>)
      [] c = 5 -> Page(<<[Instances |-> <<Instance("i-" \o region \o "-e", <<Interface("eni-1", <<>>, <<>>, V4a)>>)>>]>>)

\* What a region does: the client factory fails, or the listing serves pages.
NoClient == [client_ok |-> FALSE, pages |-> <<>>]
Listing(pages) == [client_ok |-> TRUE, pages |-> pages]
Denied == Listing(<<FailPage>>)
\* every response sequence of up to MaxPages pages; a failing call ends it
Behaviours(region) ==
    {NoClient} \cup
    UNION {{Listing([p \in 1..n |-> PageChoice(f[p], region, p)]) :
                f \in {g \in [1..n -> 0..3] : \A p \in 1..(n - 1) : g[p] # 0}} : n \in 1..MaxPages}
BehavioursSmall(region) ==
    {NoClient, Denied}
    \cup {Listing(<<PageChoice(c, region, 1)>>) : c \in {1, 4, 5}}
    \cup {Listing(<<PageChoice(1, region, 1), FailPage>>),
          Listing(<<PageChoice(2, region, 1), PageChoice(1, region, 2)>>)}

\* boto3.client('ec2', region_name=region).describe_instances(NextToken=cursor);
\* cursor 0 is the call without NextToken.  [exc, response].
describe_instances(behaviour, region, cursor) ==
    LET p == IF cursor = 0 THEN 1 ELSE cursor
        page == behaviour.pages[p]
        body == [Reservations |-> page.Reservations]
    IN  IF page.fail
        THEN [exc |-> [type |-> "ClientError", arg |-> region, text |-> <<>>], response |-> [Reservations |-> <<>>]]
        ELSE [exc |-> NoExc,
              response |-> IF p < Len(behaviour.pages) THEN ("NextToken" :> (p + 1)) @@ body ELSE body]

(***************************************************************************)
(* main.get_all_aws_instances and main.describe_instances_paginated.       *)
(***************************************************************************)
VARIABLES
    specific_regions,   \* the argument: [given, value]; given = FALSE is None
    remote,             \* what each region does (the remote side)
    pc,                 \* where the run stands
    regions,            \* the regions selected (line 42-45)
    ri,                 \* the place in regions of the loop of line 47
    ec2,                \* the client of the current region
    instances,          \* describe_instances_paginated's local list
    response,           \* describe_instances_paginated's last response
    all_aws_instances,  \* the raw instances accumulated over the regions
    parsed_instances,   \* the Instance objects built so far
    log,                \* the diagnostics emitted, in order
    result,             \* [kind, exc, value]: what the call returned or raised
    clients,            \* the regions boto3.client was called for, in order
    calls               \* the describe_instances calls made, in order

vars == <<specific_regions, remote, pc, regions, ri, ec2, instances, response, all_aws_instances,
          parsed_instances, log, result, clients, calls>>

NoResponse == [Reservations |-> <<>>]
Running == [kind |-> "running", exc |-> NoExc, value |-> <<>>]

Started ==
    /\ pc = "start"
    /\ regions = <<>>
    /\ ri = 0
    /\ ec2 = ""
    /\ instances = <<>>
    /\ response = NoResponse
    /\ all_aws_instances = <<>>
    /\ parsed_instances = <<>>
    /\ log = <<>>
    /\ result = Running
    /\ clients = <<>>
    /\ calls = <<>>

\* the regions that are not under study are all denied, or all empty
RemoteOf(a, b, others) ==
    [r \in Regions |-> IF r = RegionA THEN a ELSE IF r = RegionB THEN b ELSE others]

Named(v) == [given |-> TRUE, value |-> v]
Scenario(given, a, b, others) == [specific_regions |-> given, remote |-> RemoteOf(a, b, others)]

\* the caller names regions: every listing of RegionA, some of RegionB
NamedScenarios ==
    {Scenario(Named(v), a, b, Denied) :
        v \in {<<RegionA, RegionB>>, <<RegionB, RegionA>>},
        a \in Behaviours(RegionA), b \in BehavioursSmall(RegionB)}
    \cup {Scenario(Named(v), a, Denied, Denied) :
        v \in {<<RegionA>>, <<RegionA, RegionA>>}, a \in Behaviours(RegionA)}

\* the caller names no region (None, or an empty list)
DefaultScenarios ==
    {Scenario(given, a, b, others) :
        given \in {[given |-> FALSE, value |-> <<>>], Named(<<>>)},
        a \in BehavioursSmall(RegionA), b \in BehavioursSmall(RegionB),
        others \in {Denied, Listing(<<Page(<<>>)>>)}}

\* one region serves one raw instance, of every shape
ShapeScenarios ==
    {Scenario(Named(<<RegionA>>), Listing(<<Page(<<[Instances |-> <<raw>>]>>)>>), Denied, Denied) :
        raw \in RawInstances}

Init ==
    /\ \E s \in NamedScenarios \cup DefaultScenarios \cup ShapeScenarios :
          /\ specific_regions = s.specific_regions
          /\ remote = s.remote
    /\ Started

\* lines 42-46: the regions to pull from
SelectedRegions(given) == IF given.given /\ given.value # <<>> THEN given.value ELSE all_aws_regions
SelectRegions ==
    /\ pc = "start"
    /\ regions' = SelectedRegions(specific_regions)
    /\ ri' = 1
    /\ log' = Append(log, LogLine("info", "started pulling instances", ""))
    /\ pc' = "loop"
    /\ UNCHANGED <<specific_regions, remote, ec2, instances, response, all_aws_instances,
                   parsed_instances, result, clients, calls>>

\* line 49: ec2 = boto3.client('ec2', region_name=region), outside the try
ClientFailure(region) ==
    [kind |-> "raised", exc |-> [type |-> "ClientCreationError", arg |-> region, text |-> <<>>], value |-> <<>>]
AcquireClient ==
    /\ pc = "loop"
    /\ ri <= Len(regions)
    /\ clients' = Append(clients, regions[ri])
    /\ IF remote[regions[ri]].client_ok
       THEN /\ ec2' = regions[ri]
            /\ pc' = "describe"
            /\ UNCHANGED result
       ELSE /\ result' = ClientFailure(regions[ri])
            /\ pc' = "done"
            /\ UNCHANGED ec2
    /\ UNCHANGED <<specific_regions, remote, regions, ri, instances, response, all_aws_instances,
                   parsed_instances, log, calls>>

\* lines 18-20 and 25-26: the instances of every reservation of a response
RECURSIVE Extend(_, _)
Extend(list, reservations) ==
    IF reservations = <<>> THEN list
    ELSE Extend(list \o Head(reservations)["Instances"], Tail(reservations))

\* mutant: the except branch emits no diagnostic
RegionFailedSilently ==
    /\ log' = log
    /\ instances' = <<>>
    /\ response' = NoResponse
    /\ ri' = ri + 1
    /\ pc' = "loop"
    /\ UNCHANGED all_aws_instances
\* mutant: the pages fetched before the failure are kept
RegionFailedKeepsPages ==
    /\ log' = Append(log, LogLine("error", "Could not pull instances from region", regions[ri]))
    /\ all_aws_instances' = all_aws_instances \o instances
    /\ instances' = <<>>
    /\ response' = NoResponse
    /\ ri' = ri + 1
    /\ pc' = "loop"

\* lines 54-57: the except branch; the region's local list is dropped
RegionFailed ==
    /\ log' = Append(log, LogLine("error", "Could not pull instances from region", regions[ri]))
    /\ instances' = <<>>
    /\ response' = NoResponse
    /\ ri' = ri + 1
    /\ pc' = "loop"
    /\ UNCHANGED all_aws_instances

\* what a describe_instances call (r its outcome) does to the listing
Called(cursor, r) ==
    /\ calls' = Append(calls, [index |-> ri, region |-> ec2, cursor |-> cursor, ok |-> r.exc = NoExc])
    /\ IF r.exc = NoExc
       THEN /\ response' = r.response
            /\ instances' = Extend(instances, r.response["Reservations"])
            /\ pc' = "paging"
            /\ UNCHANGED <<ri, log, all_aws_instances>>
       ELSE RegionFailed
    /\ UNCHANGED <<specific_regions, remote, regions, ec2, parsed_instances, result, clients>>

\* lines 15-20: the first call, without a cursor
FirstCall ==
    /\ pc = "describe"
    /\ Called(0, describe_instances(remote[ec2], ec2, 0))

\* mutant: the further call supplies no cursor
NextCursorForgotten(last) == 0
\* line 24: the cursor a further call supplies
NextCursor(last) == last["NextToken"]
\* lines 22-26: one more call while the last response carries NextToken
NextCall ==
    /\ pc = "paging"
    /\ "NextToken" \in DOMAIN response
    /\ Called(NextCursor(response), describe_instances(remote[ec2], ec2, NextCursor(response)))

\* mutant: the region's instances are put in front of the accumulated ones
FinishRegionInFront ==
    /\ pc = "paging"
    /\ "NextToken" \notin DOMAIN response
    /\ all_aws_instances' = instances \o all_aws_instances
    /\ log' = Append(log, LogLine("debug", "pulled instances from region", regions[ri]))
    /\ instances' = <<>>
    /\ response' = NoResponse
    /\ ri' = ri + 1
    /\ pc' = "loop"
    /\ UNCHANGED <<specific_regions, remote, regions, ec2, parsed_instances, result, clients, calls>>

\* lines 27 and 52-53: the listing returns and the region's instances are kept
FinishRegion ==
    /\ pc = "paging"
    /\ "NextToken" \notin DOMAIN response
    /\ all_aws_instances' = all_aws_instances \o instances
    /\ log' = Append(log, LogLine("debug", "pulled instances from region", regions[ri]))
    /\ instances' = <<>>
    /\ response' = NoResponse
    /\ ri' = ri + 1
    /\ pc' = "loop"
    /\ UNCHANGED <<specific_regions, remote, regions, ec2, parsed_instances, result, clients, calls>>

\* lines 58-60: the loop over the regions is over
EndOfRegions ==
    /\ pc = "loop"
    /\ ri > Len(regions)
    /\ log' = log \o <<LogLine("info", "finished successfully pulling instances", ""),
                       LogLine("info", "processing raw data into objects", "")>>
    /\ pc' = "parse"
    /\ UNCHANGED <<specific_regions, remote, regions, ri, ec2, instances, response, all_aws_instances,
                   parsed_instances, result, clients, calls>>

\* lines 61-65: one raw instance is parsed (r is what from_raw_data_to_instance
\* did); an exception is not caught
Parsed(r) ==
    /\ log' = log \o r.log
    /\ IF r.exc = NoExc
       THEN /\ parsed_instances' = Append(parsed_instances, r.value)
            /\ UNCHANGED <<pc, result>>
       ELSE /\ result' = [kind |-> "raised", exc |-> r.exc, value |-> <<>>]
            /\ pc' = "done"
            /\ UNCHANGED parsed_instances
    /\ UNCHANGED <<specific_regions, remote, regions, ri, ec2, instances, response, all_aws_instances,
                   clients, calls>>
ParseInstance ==
    /\ pc = "parse"
    /\ Len(parsed_instances) < Len(all_aws_instances)
    /\ Parsed(from_raw_data_to_instance(all_aws_instances[Len(parsed_instances) + 1]))

\* lines 66-67
Return ==
    /\ pc = "parse"
    /\ Len(parsed_instances) = Len(all_aws_instances)
    /\ log' = Append(log, LogLine("info", "finished processing the raw data", ""))
    /\ result' = [kind |-> "returned", exc |-> NoExc, value |-> parsed_instances]
    /\ pc' = "done"
    /\ UNCHANGED <<specific_regions, remote, regions, ri, ec2, instances, response, all_aws_instances,
                   parsed_instances, clients, calls>>

Next ==
    \/ SelectRegions
    \/ AcquireClient
    \/ FirstCall
    \/ NextCall
    \/ FinishRegion
    \/ EndOfRegions
    \/ ParseInstance
    \/ Return

Spec == Init /\ [][Next]_vars
(***************************************************************************)
(* What the remote side holds, read off the scenario alone.                *)
(***************************************************************************)
RECURSIVE Concat(_)
Concat(lists) == IF lists = <<>> THEN <<>> ELSE Head(lists) \o Concat(Tail(lists))

\* every instance record of every reservation of every page of a listing
PageInstances(page) == Concat([r \in 1..Len(page.Reservations) |-> page.Reservations[r]["Instances"]])
RegionInstances(b) == Concat([p \in 1..Len(b.pages) |-> PageInstances(b.pages[p])])
\* the client is created and no call of the listing fails
ListsOk(b) == b.client_ok /\ \A p \in 1..Len(b.pages) : ~b.pages[p].fail
\* a call of the listing fails (the client was created)
ListingFails(b) == b.client_ok /\ \E p \in 1..Len(b.pages) : b.pages[p].fail
Contribution(b) == IF ListsOk(b) THEN RegionInstances(b) ELSE <<>>
\* the records of the successful ones of the first n selected regions
Accumulated(n) == Concat([i \in 1..n |-> Contribution(remote[regions[i]])])
\* the ones of the first n selected regions whose listing fails, in order
RECURSIVE FailedRegions(_)
FailedRegions(n) ==
    IF n <= 0 THEN <<>>
    ELSE FailedRegions(n - 1) \o (IF ListingFails(remote[regions[n]]) THEN <<regions[n]>> ELSE <<>>)

IsRegionError(l) == l.level = "error" /\ l.msg = "Could not pull instances from region"
\* the regions the error diagnostics of the log name, in order
RegionErrors == [k \in 1..Len(SelectSeq(log, IsRegionError)) |-> SelectSeq(log, IsRegionError)[k].id]

AllClientsOk == \A i \in 1..Len(regions) : remote[regions[i]].client_ok
LoopOver == pc \in {"parse", "done"} /\ ri > Len(regions)
\* the calls made for the region at place i
CallsOf(i) == {k \in 1..Len(calls) : calls[k].index = i}

\* C1: when every selected region either lists successfully or fails while
\* being listed, no listing failure escapes as an exception; once the loop over
\* the regions is over every region was visited, there is exactly one error
\* diagnostic per failed region, naming it, and the accumulated records are
\* exactly those of the successful regions, in order; and what is returned are
\* the objects of exactly these records, in order.
C1_PartialFailureTolerated ==
    (pc # "start" /\ AllClientsOk) =>
        /\ result.exc.type # "ClientError"
        /\ pc = "done" => result.kind \in {"returned", "raised"} /\ LoopOver
        /\ LoopOver =>
              /\ clients = regions
              /\ RegionErrors = FailedRegions(Len(regions))
              /\ all_aws_instances = Accumulated(Len(regions))
        /\ result.kind = "returned" =>
              /\ Len(result.value) = Len(Accumulated(Len(regions)))
              /\ \A k \in 1..Len(result.value) :
                    result.value[k].instance_id = Accumulated(Len(regions))[k]["InstanceId"]

\* C1 witness: a run returned the instances of a region that was visited
\* after a region whose listing failed
C1_Witness ==
    /\ pc = "done"
    /\ result.kind = "returned"
    /\ Len(result.value) > 0
    /\ Len(regions) = 2
    /\ ListingFails(remote[regions[1]])
    /\ ListsOk(remote[regions[2]])

\* C5: within one region the first call carries no cursor, every further call
\* carries the cursor of the response before it, and a further call is made
\* exactly when that response carries a cursor; when the n pages of a region
\* all succeed, exactly n calls are made and the listing returns every record
\* of every reservation of all n pages.
ResponseOf(call) == describe_instances(remote[call.region], call.region, call.cursor).response
C5_Pagination ==
    /\ \A k \in 1..Len(calls) :
          IF k = 1 \/ calls[k - 1].index # calls[k].index
          THEN calls[k].cursor = 0
          ELSE /\ calls[k - 1].ok
               /\ "NextToken" \in DOMAIN ResponseOf(calls[k - 1])
               /\ calls[k].cursor = ResponseOf(calls[k - 1])["NextToken"]
    /\ \A k \in 1..Len(calls) :
          (calls[k].ok /\ "NextToken" \in DOMAIN ResponseOf(calls[k])
              /\ (k = Len(calls) \/ calls[k + 1].index # calls[k].index))
          => (k = Len(calls) /\ pc = "paging")
    /\ (pc = "paging" /\ "NextToken" \notin DOMAIN response) =>
          /\ Cardinality(CallsOf(ri)) = Len(remote[ec2].pages)
          /\ instances = RegionInstances(remote[ec2])

\* C5 witness: a listing of three pages is about to return after three calls
C5_Witness ==
    /\ pc = "paging"
    /\ "NextToken" \notin DOMAIN response
    /\ Len(remote[ec2].pages) = 3
    /\ Cardinality(CallsOf(ri)) = 3
    /\ Len(instances) >= 3

\* C8: a region contributes all of its records or none: at every moment the
\* accumulator holds exactly the records of the regions already left whose
\* listing succeeded on every page, so a region that fails on a later page
\* leaves none of its records and changes nothing accumulated before.
C8_AllOrNothing == all_aws_instances = Accumulated(ri - 1)

\* C8 witness: the second region failed on its second page, after its first
\* page was fetched, and the records of the first region are still there
C8_Witness ==
    /\ pc = "loop"
    /\ ri = 3
    /\ Len(calls) >= 3
    /\ calls[Len(calls)].index = 2 /\ ~calls[Len(calls)].ok
    /\ calls[Len(calls) - 1].index = 2 /\ calls[Len(calls) - 1].ok
    /\ Len(PageInstances(remote[regions[2]].pages[1])) > 0
    /\ all_aws_instances # <<>>
    /\ all_aws_instances = RegionInstances(remote[regions[1]])
\* C9: the regions are visited one after the other in input order (the calls
\* of a region all come before the calls of the next one), no record is
\* parsed before the loop over the regions is over, and the instances returned
\* are ordered by region place, then page, then reservation, then place in
\* the reservation.
Places ==
    UNION {UNION {UNION {{<<i, p, r, k>> :
                            k \in 1..Len(remote[regions[i]].pages[p].Reservations[r]["Instances"])} :
                         r \in 1..Len(remote[regions[i]].pages[p].Reservations)} :
                  p \in 1..Len(remote[regions[i]].pages)} :
           i \in {j \in 1..Len(regions) : ListsOk(remote[regions[j]])}}
Before(a, b) ==
    \E n \in 1..4 : a[n] < b[n] /\ \A m \in 1..(n - 1) : a[m] = b[m]
Rank(a) == Cardinality({b \in Places : Before(b, a)}) + 1
RecordAt(a) == remote[regions[a[1]]].pages[a[2]].Reservations[a[3]]["Instances"][a[4]]
C9_InputOrder ==
    /\ \A k \in 1..Len(calls) :
          /\ calls[k].region = regions[calls[k].index]
          /\ k > 1 => calls[k - 1].index <= calls[k].index
          /\ calls[k].index <= ri
    /\ parsed_instances # <<>> => LoopOver
    /\ result.kind = "returned" =>
          /\ Len(result.value) = Cardinality(Places)
          /\ \A a \in Places : result.value[Rank(a)].instance_id = RecordAt(a)["InstanceId"]

\* C9 witness: a run returned the instances of two regions, one of which
\* served several pages with several reservations
C9_Witness ==
    /\ result.kind = "returned"
    /\ Len(regions) = 2
    /\ \E a \in Places, b \in Places, c \in Places, d \in Places :
          /\ a[1] = 1 /\ b[1] = 2
          /\ c[2] > 1 /\ d[3] > 1 /\ d[4] = 1
          /\ \E e \in Places : e[1] = d[1] /\ e[2] = d[2] /\ e[3] = 1 /\ e[4] = 2

\* the number of regions of the built-in list
BuiltInRegions == 21

\* C10: the regions queried are the caller's when the caller names at least
\* one, and the 21 built-in regions otherwise (None or an empty list); in
\* every case the client of each selected region is acquired exactly once, in
\* order: while the loop runs the clients acquired are those of the regions
\* reached, and when the run has ended, however it ended, every selected
\* region has had its client acquired; after a failed call no further call is
\* made for that region.
C10_RegionSelection ==
    /\ pc # "start" =>
          /\ specific_regions.value # <<>> => regions = specific_regions.value
          /\ (~specific_regions.given \/ specific_regions.value = <<>>) =>
                /\ Len(regions) = BuiltInRegions
                /\ regions = all_aws_regions
    /\ Len(clients) <= Len(regions)
    /\ \A k \in 1..Len(clients) : clients[k] = regions[k]
    /\ pc \in {"describe", "paging"} => Len(clients) = ri
    /\ pc = "loop" => Len(clients) = ri - 1
    /\ pc \in {"parse", "done"} => clients = regions
    /\ \A k \in 1..Len(calls) :
          /\ ~calls[k].ok => \A m \in (k + 1)..Len(calls) : calls[m].index > calls[k].index
          /\ (k > 1 /\ calls[k].cursor = 0) => calls[k - 1].index < calls[k].index

\* C7: a raw instance with every required key, whose interfaces all convert,
\* is converted; the object's required fields are the raw values, and its
\* network_interfaces are the conversions of the raw interfaces, one for one
\* and in order.
HasRequired(raw) == \A k \in RequiredKeys : k \in DOMAIN raw
InterfacesConvert(raw) ==
    \A j \in 1..Len(raw["NetworkInterfaces"]) :
        from_raw_data_to_network_interface(raw["NetworkInterfaces"][j]).exc = NoExc
C7_InstanceVerbatim ==
    /\ \A n \in 1..Len(parsed_instances) :
          LET raw == all_aws_instances[n]
              obj == parsed_instances[n]
          IN  /\ obj.image_id = raw["ImageId"]
              /\ obj.instance_id = raw["InstanceId"]
              /\ obj.state = raw["State"]
              /\ obj.launch_time = raw["LaunchTime"]
              /\ obj.tags = raw["Tags"]
              /\ obj.cpu_details = raw["CpuOptions"]
              /\ obj.instance_type = raw["InstanceType"]
              /\ obj.security_groups = raw["SecurityGroups"]
              /\ obj.client_token = raw["ClientToken"]
              /\ obj.state_transition_reason = raw["StateTransitionReason"]
              /\ obj.root_device_name = raw["RootDeviceName"]
              /\ Len(obj.network_interfaces) = Len(raw["NetworkInterfaces"])
              /\ \A j \in 1..Len(obj.network_interfaces) :
                    /\ obj.network_interfaces[j].network_interface_id
                          = raw["NetworkInterfaces"][j]["NetworkInterfaceId"]
                    /\ obj.network_interfaces[j].mac_address = raw["NetworkInterfaces"][j]["MacAddress"]
    /\ (pc = "done" /\ LoopOver /\ result.kind = "raised") =>
          ~(/\ HasRequired(all_aws_instances[Len(parsed_instances) + 1])
            /\ InterfacesConvert(all_aws_instances[Len(parsed_instances) + 1]))

\* C7 witness: an instance with two interfaces, one of them with invalid
\* addresses, was converted
C7_Witness ==
    /\ parsed_instances # <<>>
    /\ Len(parsed_instances[1].network_interfaces) = 2
    /\ parsed_instances[1].network_interfaces[1].ipv6_address = None
    /\ all_aws_instances[1]["NetworkInterfaces"][1]["Ipv6Addresses"] = Bad
    /\ parsed_instances[1].network_interfaces[2].network_interface_id = "eni-2"

\* C2 (as claimed): a failure to acquire a region's client is caught like a
\* listing failure: no exception escapes, a diagnostic names the region, and
\* the regions after it are still processed.
C2_ClientFailureCaught ==
    /\ ~(result.kind = "raised" /\ result.exc.type = "ClientCreationError")
    /\ pc = "done" =>
          /\ clients = regions
          /\ \A i \in 1..Len(regions) :
                ~remote[regions[i]].client_ok => \E k \in 1..Len(RegionErrors) : RegionErrors[k] = regions[i]

\* the raw value of an address field of a raw interface (Absent: no such key)
AddressKeys == {"Ipv6Addresses", "PublicIp", "PrivateIpAddress"}
RawAddress(interface, key) ==
    IF key = "PublicIp"
    THEN (IF key \in DOMAIN interface["Association"] THEN interface["Association"][key] ELSE Absent)
    ELSE (IF key \in DOMAIN interface THEN interface[key] ELSE Absent)
ParsedAddress(object, key) ==
    CASE key = "Ipv6Addresses" -> object.ipv6_address
      [] key = "PublicIp" -> object.public_ip_address
      [] key = "PrivateIpAddress" -> object.private_ip_address
Diagnostic(key) ==
    CASE key = "Ipv6Addresses" -> "ipv6 address is not valid in network interface with the id"
      [] key = "PublicIp" -> "public_ip address is not valid in network interface with the id"
      [] key = "PrivateIpAddress" -> "private_ip_address address is not valid in network interface with the id"
IsInvalid(v) == v # Absent /\ v # <<>> /\ ~ip_address(v).ok
IsValid(v) == v # Absent /\ v # <<>> /\ ip_address(v).ok
\* the interfaces converted so far: <<n, j>> is interface j of instance n
Converted ==
    UNION {{<<n, j>> : j \in 1..Len(parsed_instances[n].network_interfaces)} : n \in 1..Len(parsed_instances)}

\* C3 (as claimed): an address value that is present, non-empty and not a
\* valid IP address never aborts the conversion: the interface is returned
\* with the field None, and one diagnostic names the field and the interface.
C3_InvalidAddressTolerated ==
    /\ ~(result.kind = "raised" /\ result.exc.type = "ValueError" /\ IsInvalid(result.exc.text))
    /\ \A x \in Converted, key \in AddressKeys :
          IsInvalid(RawAddress(all_aws_instances[x[1]]["NetworkInterfaces"][x[2]], key)) =>
              /\ ParsedAddress(parsed_instances[x[1]].network_interfaces[x[2]], key) = None
              /\ \E k \in 1..Len(log) :
                    /\ log[k].msg = Diagnostic(key)
                    /\ log[k].id = all_aws_instances[x[1]]["NetworkInterfaces"][x[2]]["NetworkInterfaceId"]

\* C4 (as claimed): with the required keys present, an address value that is
\* absent or the empty string gives a None field and no failure, and a valid
\* IP string gives the parsed address.
C4_AddressFields ==
    /\ ~(result.kind = "raised" /\ result.exc.type = "ValueError" /\ result.exc.text = <<>>)
    /\ ~(result.kind = "raised" /\ result.exc.type = "KeyError" /\ result.exc.arg \in AddressKeys)
    /\ \A x \in Converted, key \in AddressKeys :
          LET v == RawAddress(all_aws_instances[x[1]]["NetworkInterfaces"][x[2]], key)
              field == ParsedAddress(parsed_instances[x[1]].network_interfaces[x[2]], key)
          IN  /\ (v = Absent \/ v = <<>>) => field = None
              /\ IsValid(v) => field = ip_address(v).addr

\* the required keys (those of the instance, of its interfaces and of their
\* Association blocks; the three address keys are optional) a raw instance lacks
MissingOfInterface(interface) ==
    {k \in {InterfaceKeys[i] : i \in 1..Len(InterfaceKeys)} \cup {"Association"} : k \notin DOMAIN interface}
    \cup (IF "Association" \in DOMAIN interface
          THEN {k \in {AssociationKeys[i] : i \in 1..Len(AssociationKeys)} : k \notin DOMAIN interface["Association"]}
          ELSE {})
MissingKeys(raw) ==
    {k \in RequiredKeys : k \notin DOMAIN raw}
    \cup (IF "NetworkInterfaces" \in DOMAIN raw
          THEN UNION {MissingOfInterface(raw["NetworkInterfaces"][j]) : j \in 1..Len(raw["NetworkInterfaces"])}
          ELSE {})

\* C6 (as claimed): when an accumulated record lacks a required key, the run
\* ends with the missing-field error that names the key, and returns nothing.
C6_MissingKeyFatal ==
    (/\ pc = "done"
     /\ LoopOver
     /\ \E n \in 1..Len(all_aws_instances) : MissingKeys(all_aws_instances[n]) # {}) =>
        /\ result.kind = "raised"
        /\ result.value = <<>>
        /\ result.exc.type = "KeyError"
        /\ \E n \in 1..Len(all_aws_instances) : result.exc.arg \in MissingKeys(all_aws_instances[n])
====
